---- MODULE Spec2Model ----
(***************************************************************************)
(* TableForm.vue / FieldForm.vue (web-frontend, database module): the      *)
(* name / api_name validation rules, the template's error and warning      *)
(* chain, the api-name hazard warning driven by focus, blur and a          *)
(* setInterval timer, the dynamic field-type sub-form, and the             *)
(* UpdateTableContext that owns a TableForm.                               *)
(*                                                                         *)
(* Strings are sequences of one-character strings, so that trim, slice     *)
(* and the regular expressions are computed character by character.        *)
(***************************************************************************)
EXTENDS Integers, Sequences, FiniteSets, TLC

VARIABLES
  formKind,               \* "table" (TableForm.vue) or "field" (FieldForm.vue)
  creating,               \* FieldForm prop `creating`
  primary,                \* FieldForm prop `primary`
  forcedType,             \* FieldForm prop `forcedType` (Null or a type)
  defaultValues,          \* prop `default-values` (the table / field being edited)
  fields,                 \* store getter field/getAll (FieldForm)
  database,               \* the tables of the database the edited table is in
  values,                 \* data().values
  dirty,                  \* the keys of values whose $v.values.<key>.$dirty is true
  submitted,              \* payload of the `submitted` event emitted by the last handler
  api_name_focused,       \* data().api_name_focused
  apiNameWarningInterval, \* this.apiNameWarningInterval (0: undefined, before the first blur)
  intervals,              \* ids of the intervals live in the browser's timer table
  fired,                  \* ids of the intervals whose callback has run at least once
  nextTimerId,            \* the id the next setInterval returns
  apiNameHasFocus,        \* DOM: the api_name input is the focused element
  formAlive,              \* the form component instance is mounted (not destroyed)
  childForm,              \* the dynamic sub-form mounted under the type dropdown
  nextInstance,           \* the uid the next component instance gets
  loading,                \* UpdateTableContext data().loading
  contextOpen,            \* the Context popup is shown
  pending,                \* number of table/update dispatches not yet settled
  lastOp,                 \* the handler that ran last
  errorSink,              \* who took the error of the dispatch that failed in the last handler
  contextEvents,          \* hide() calls and events emitted by the context in the last handler
  directive,              \* tooltip directive on its host: "fresh", "bound", "unbound"
  el,                     \* the host's el.value, el.delay, el.tooltipElement, el.timeOut
  currentListener,        \* the listeners el.tooltip*Event refer to are on the host
  staleListeners,         \* listener pairs of earlier initialize calls left on the host
  timeouts,               \* ids of the setTimeout timers pending in the browser
  nextTimeout,            \* the id the next setTimeout returns
  tooltips,               \* ids of the host's tooltip elements in document.body
  nextElement,            \* the id of the next element createElement returns
  hover,                  \* the pointer is over the host
  terminated,             \* terminate ran for an empty value or an unbind, no initialize since
  tipOp                   \* the directive hook or event that ran last

vars == << formKind, creating, primary, forcedType, defaultValues, fields, database, values, dirty,
           submitted, api_name_focused, apiNameWarningInterval, intervals,
           fired, nextTimerId, apiNameHasFocus, formAlive, childForm, nextInstance,
           loading, contextOpen, pending, lastOp, errorSink, contextEvents, directive, el, currentListener,
           staleListeners, timeouts, nextTimeout, tooltips, nextElement, hover,
           terminated, tipOp >>

\* the state of the forms and of the context
formVars == << formKind, creating, primary, forcedType, defaultValues, fields,
               database, values, dirty, submitted, api_name_focused,
               apiNameWarningInterval, intervals, fired, nextTimerId, apiNameHasFocus,
               formAlive, childForm, nextInstance, loading, contextOpen, pending,
               lastOp, errorSink, contextEvents >>

\* the state of the tooltip directive and of its host element
tooltipVars == << directive, el, currentListener, staleListeners, timeouts,
                  nextTimeout, tooltips, nextElement, hover, terminated, tipOp >>

hazardVars == << api_name_focused, apiNameWarningInterval, intervals, fired,
                 nextTimerId, apiNameHasFocus >>

contextVars == << loading, contextOpen, pending >>

propVars == << formKind, creating, primary, forcedType, fields, database >>

childVars == << childForm, nextInstance >>

(***************************************************************************)
(* Bounds of the model.                                                    *)
(***************************************************************************)
\* longest string of the exhaustive part of the input alphabet
MaxLen == 2
\* number of setInterval calls followed in one behaviour
MaxTimers == 3
\* number of table/update dispatches in flight at once (the disabled submit
\* button keeps it at one)
MaxDispatch == 2
\* number of sub-form instances created in one behaviour
MaxInstances == 3
\* number of setTimeout calls of the tooltip followed in one behaviour
MaxTimeouts == 3
\* number of tooltip elements created in one behaviour
MaxElements == 2
\* number of listener pairs left behind on the host by repeated initialize calls
MaxStale == 1

(***************************************************************************)
(* JavaScript values and strings.                                          *)
(***************************************************************************)
Null == "null"
Undefined == "undefined"
\* no `submitted` event: the set of emitted payloads is empty
NoEvent == {}

Lower == {"a", "d", "i", "m", "s", "t", "u", "y"}
Digits == {"1"}
\* the characters of the exhaustive part of the inputs
Chars == {"a", "_", " "}

Max(a, b) == IF a > b THEN a ELSE b
Min(a, b) == IF a < b THEN a ELSE b

\* String.prototype.trim: strips the white space at both ends, that is, keeps
\* the characters from the first to the last one that is not white space
Trim(s) ==
  IF Len(s) = 0 \/ (s[1] # " " /\ s[Len(s)] # " ") THEN s
  ELSE IF \A i \in 1..Len(s) : s[i] = " " THEN << >>
  ELSE SubSeq(s,
         CHOOSE i \in 1..Len(s) : s[i] # " " /\ \A j \in 1..(i - 1) : s[j] = " ",
         CHOOSE i \in 1..Len(s) : s[i] # " " /\ \A j \in (i + 1)..Len(s) : s[j] = " ")

\* String.prototype.slice(start): from index start (counted from the end when
\* negative) to the end of the string
Slice(s, start) ==
  LET n == Len(s)
      b == IF start < 0 THEN Max(n + start, 0) ELSE Min(start, n)
  IN  SubSeq(s, b + 1, n)

\* /^[a-z0-9_]+$/.test(s)
MatchesApiNameChars(s) ==
  /\ Len(s) >= 1
  /\ \A i \in 1..Len(s) : s[i] \in Lower \cup Digits \cup {"_"}

\* /__/.test(s)
HasDoubleUnderscore(s) ==
  \E i \in 1..(Len(s) - 1) : s[i] = "_" /\ s[i + 1] = "_"

\* MAX_FIELD_NAME_LENGTH of database/utils/constants
MAX_FIELD_NAME_LENGTH == 255

\* RESERVED_BASEROW_FIELD_NAMES of database/utils/constants
RESERVED_BASEROW_FIELD_NAMES == { <<"i", "d">> }

\* s followed by spaces up to MAX_FIELD_NAME_LENGTH + 1 characters
PadRight(s) ==
  s \o [i \in 1..(MAX_FIELD_NAME_LENGTH + 1 - Len(s)) |-> " "]

\* c repeated MAX_FIELD_NAME_LENGTH + 1 times
Repeat(c) == [i \in 1..(MAX_FIELD_NAME_LENGTH + 1) |-> c]

ShortStrings == UNION { [1..k -> Chars] : k \in 0..MaxLen }

my_id == <<"m", "y", "_", "i", "d">>
status == <<"s", "t", "a", "t", "u", "s">>
Status == <<"S", "t", "a", "t", "u", "s">>

\* names the user types: empty, blank, clashing with a sibling with and without
\* surrounding blanks, differing from one in case only, reserved, too long
NameExamples ==
  { << >>, <<" ">>, <<"A">>, status, Status, <<" ">> \o Status \o <<" ">>,
    <<"i", "d">>, PadRight(<<"i", "d">>), PadRight(Status), Repeat("a") }

ApiNameExamples ==
  { <<"A">>, my_id, <<" ">> \o my_id \o <<" ">>, <<"_", "i", "d">>, <<"i", "d", "_">>,
    <<"m", "y", "_", "_", "i", "d">>, status, Status, <<"i", "d", "1">>,
    PadRight(my_id), Repeat("A"), Repeat("a") }

\* what the user can type into the api_name input
ApiNameInputs == ShortStrings \cup ApiNameExamples

(***************************************************************************)
(* Props and store contents the forms are mounted with.                    *)
(***************************************************************************)
\* defaultValues = {} : the prop's default, used while creating
\* an object is a record of its properties and the set of those it defines
EmptyObject ==
  [keys |-> {}, id |-> Undefined, name |-> << >>, api_name |-> << >>, type |-> Undefined]

\* a null default-values prop
NullObject ==
  [keys |-> {}, id |-> Null, name |-> << >>, api_name |-> << >>, type |-> Null]

Entity(i, n, a, t) ==
  [keys |-> {"id", "name", "api_name"} \cup (IF t = Undefined THEN {} ELSE {"type"}),
   id |-> i, name |-> n, api_name |-> a, type |-> t]

StatusField == Entity("1", Status, status, "number")
LinkField == Entity("2", <<"a">>, my_id, "link_to_table")
CreatedField == Entity("3", status, <<"a">>, "created_on")
\* the primary field is edited through the same form and is not part of field/getAll
PrimaryField == Entity("9", <<"A">>, <<"i", "d", "1">>, "number")

FieldStores == { <<StatusField>>, <<LinkField, CreatedField, StatusField>> }

OrdersTable == Entity("1", <<"A">>, my_id, Undefined)
UsersTable == Entity("2", Status, status, Undefined)
\* the table prop after an outside source has renamed table 1
OrdersRenamed == Entity("1", <<"a", "A">>, <<"a">>, Undefined)

Databases == { <<OrdersTable>>, <<OrdersTable, UsersTable>> }

(***************************************************************************)
(* data(): FieldForm.vue 165-181, TableForm.vue 91-100.                    *)
(***************************************************************************)
allowedValues ==
  IF formKind = "table" THEN {"name", "api_name"}
  ELSE IF ~creating THEN {"name", "type", "api_name"}
  ELSE {"name", "type"}

\* this.forcedType || ''
ForcedOrEmpty == IF forcedType = Null THEN "" ELSE forcedType

\* data() that adds api_name whether or not the form is creating
DataValues_AlwaysApiName ==
  IF formKind = "table" THEN [name |-> << >>, api_name |-> << >>]
  ELSE [name |-> << >>, type |-> ForcedOrEmpty, api_name |-> << >>]

DataValues ==
  IF formKind = "table" THEN [name |-> << >>, api_name |-> << >>]
  ELSE IF ~creating THEN [name |-> << >>, type |-> ForcedOrEmpty, api_name |-> << >>]
  ELSE [name |-> << >>, type |-> ForcedOrEmpty]

\* form mixin, getDefaultValues: the allowed keys the default values define
DefaultsOver(base, dv) ==
  [k \in DOMAIN base |->
     IF k \in allowedValues /\ k \in dv.keys THEN dv[k] ELSE base[k]]

existingTableId == IF defaultValues # NullObject THEN defaultValues.id ELSE Null

existingFieldId == IF defaultValues # NullObject THEN defaultValues.id ELSE Null

(***************************************************************************)
(* Validators.                                                             *)
(***************************************************************************)
\* required that tests the raw string, without trimming it
required_NoTrim(param) == Len(param) > 0

\* vuelidate required: a string is trimmed before the emptiness test
required(param) == Len(Trim(param)) > 0

\* vuelidate maxLength(MAX_FIELD_NAME_LENGTH): the raw length, empty passes
maxLength(param) == Len(param) = 0 \/ Len(param) <= MAX_FIELD_NAME_LENGTH

mustHaveUniqueFieldName(param) ==
  LET fs == IF existingFieldId # Null
            THEN SelectSeq(fields, LAMBDA f : f.id # existingFieldId)
            ELSE fields
  IN  ~ \E i \in DOMAIN fs : fs[i].name = Trim(param)

\* mustHaveUniqueFieldAPIName without the filter on existingFieldId
mustHaveUniqueFieldAPIName_NoExclude(param) ==
  ~ \E i \in DOMAIN fields : fields[i].api_name = Trim(param)

mustHaveUniqueFieldAPIName(param) ==
  LET fs == IF existingFieldId # Null
            THEN SelectSeq(fields, LAMBDA f : f.id # existingFieldId)
            ELSE fields
  IN  ~ \E i \in DOMAIN fs : fs[i].api_name = Trim(param)

mustUseValidAPINameCharacters(param) ==
  LET p == Trim(param)
  IN  /\ MatchesApiNameChars(p)
      /\ Slice(p, 0) # <<"_">>
      /\ Slice(p, -1) # <<"_">>
      /\ ~ HasDoubleUnderscore(p)

mustNotClashWithReservedName(param) ==
  Trim(param) \notin RESERVED_BASEROW_FIELD_NAMES

\* validations(): per key of values, the rules in the order they are declared
validations ==
  IF formKind = "table"
  THEN [name |-> <<"required", "maxLength">>,
        api_name |-> <<"required", "maxLength", "mustUseValidAPINameCharacters">>]
  ELSE IF ~creating
  THEN [name |-> <<"required", "maxLength", "mustHaveUniqueFieldName",
                   "mustNotClashWithReservedName">>,
        type |-> <<"required">>,
        api_name |-> <<"required", "maxLength", "mustHaveUniqueFieldAPIName",
                       "mustUseValidAPINameCharacters">>]
  ELSE [name |-> <<"required", "maxLength", "mustHaveUniqueFieldName",
                   "mustNotClashWithReservedName">>,
        type |-> <<"required">>]

\* the value of one rule of $v.values.<key> on param; the type is a registry key,
\* required of it is that it is not the empty string
RuleHolds(key, rule, param) ==
  CASE rule = "required" -> IF key = "type" THEN param # "" ELSE required(param)
    [] rule = "maxLength" -> maxLength(param)
    [] rule = "mustHaveUniqueFieldName" -> mustHaveUniqueFieldName(param)
    [] rule = "mustHaveUniqueFieldAPIName" -> mustHaveUniqueFieldAPIName(param)
    [] rule = "mustUseValidAPINameCharacters" -> mustUseValidAPINameCharacters(param)
    [] rule = "mustNotClashWithReservedName" -> mustNotClashWithReservedName(param)

\* $v.values.<key>.<rule>
V(key, rule) == RuleHolds(key, rule, values[key])

\* $v.values.<key>.$invalid of a form whose api_name counts as invalid for as
\* long as the warning flag is set
Invalid_WhileWarned(key) ==
  \/ key = "api_name" /\ api_name_focused
  \/ \E i \in DOMAIN validations[key] : ~ V(key, validations[key][i])

\* $v.values.<key>.$invalid
Invalid(key) ==
  \E i \in DOMAIN validations[key] : ~ V(key, validations[key][i])

\* $v.values.<key>.$dirty
Dirty(key) == key \in dirty

\* form mixin, isFormValid: !$v.$invalid
isFormValid == \A key \in DOMAIN validations : ~ Invalid(key)

\* the local variable param of a validator when it returns: only
\* mustUseValidAPINameCharacters assigns it (param = param.trim())
ParamAtReturn(rule, param) ==
  IF rule = "mustUseValidAPINameCharacters" THEN Trim(param) ELSE param

\* this.values after its rules ran, had the validators' parameter been bound to
\* the property of this.values it is read from
ValuesAfterRules_WriteBack(vals) ==
  [key \in DOMAIN vals |->
     IF key = "type" THEN vals[key]
     ELSE IF \E i \in DOMAIN validations[key] :
               ParamAtReturn(validations[key][i], vals[key]) # vals[key]
          THEN Trim(vals[key])
          ELSE vals[key]]

\* this.values after its rules ran: a validator gets the string by value, and
\* no validator assigns a property of this.values
ValuesAfterRules(vals) == vals

\* the store's field list after the rules ran: filter() returns a new array and
\* the validators assign it to their local only
FieldsAfterRules(fs) == fs

(***************************************************************************)
(* Templates: the one message shown under each input.                      *)
(***************************************************************************)
\* the name chain with the maxLength branch moved before the unique branch
DisplayName_LengthFirst ==
  IF Dirty("name") /\ ~ V("name", "required") THEN "requiredField"
  ELSE IF Dirty("name") /\ ~ V("name", "maxLength") THEN "nameTooLong"
  ELSE IF formKind = "field" /\ Dirty("name") /\ ~ V("name", "mustHaveUniqueFieldName")
       THEN "fieldAlreadyExists"
  ELSE IF formKind = "field" /\ Dirty("name")
          /\ ~ V("name", "mustNotClashWithReservedName")
       THEN "nameNotAllowed"
  ELSE "none"

\* the name chain without the $dirty test in its first branch
DisplayName_NoDirtyGuard ==
  IF ~ V("name", "required") THEN "requiredField"
  ELSE IF formKind = "field" /\ Dirty("name") /\ ~ V("name", "mustHaveUniqueFieldName")
       THEN "fieldAlreadyExists"
  ELSE IF formKind = "field" /\ Dirty("name")
          /\ ~ V("name", "mustNotClashWithReservedName")
       THEN "nameNotAllowed"
  ELSE IF Dirty("name") /\ ~ V("name", "maxLength") THEN "nameTooLong"
  ELSE "none"

\* FieldForm.vue 14-42, TableForm.vue 14-25
DisplayName ==
  IF formKind = "table"
  THEN IF Dirty("name") /\ ~ V("name", "required") THEN "requiredField"
       ELSE IF Dirty("name") /\ ~ V("name", "maxLength") THEN "nameTooLong"
       ELSE "none"
  ELSE IF Dirty("name") /\ ~ V("name", "required") THEN "requiredField"
       ELSE IF Dirty("name") /\ ~ V("name", "mustHaveUniqueFieldName")
            THEN "fieldAlreadyExists"
       ELSE IF Dirty("name") /\ ~ V("name", "mustNotClashWithReservedName")
            THEN "nameNotAllowed"
       ELSE IF Dirty("name") /\ ~ V("name", "maxLength") THEN "nameTooLong"
       ELSE "none"

\* the api_name chain with the warning branch first
DisplayApiName_WarningFirst ==
  IF formKind = "field" /\ creating THEN "notRendered"
  ELSE IF api_name_focused THEN "warning"
  ELSE IF Dirty("api_name") /\ ~ V("api_name", "required") THEN "requiredField"
  ELSE IF Dirty("api_name") /\ Invalid("api_name") THEN "invalidApiNameFormat"
  ELSE "none"

\* FieldForm.vue 45-93, TableForm.vue 28-68
DisplayApiName ==
  IF formKind = "table"
  THEN IF Dirty("api_name") /\ ~ V("api_name", "required") THEN "requiredField"
       ELSE IF Dirty("api_name") /\ ~ V("api_name", "mustUseValidAPINameCharacters")
            THEN "invalidApiNameFormat"
       ELSE IF Dirty("api_name") /\ ~ V("api_name", "maxLength") THEN "nameTooLong"
       ELSE IF api_name_focused THEN "warning"
       ELSE "none"
  ELSE IF creating THEN "notRendered"
       ELSE IF Dirty("api_name") /\ ~ V("api_name", "required") THEN "requiredField"
       ELSE IF Dirty("api_name") /\ ~ V("api_name", "mustHaveUniqueFieldAPIName")
            THEN "fieldAlreadyExists"
       ELSE IF Dirty("api_name") /\ ~ V("api_name", "mustUseValidAPINameCharacters")
            THEN "invalidApiNameFormat"
       ELSE IF Dirty("api_name") /\ ~ V("api_name", "maxLength") THEN "nameTooLong"
       ELSE IF api_name_focused THEN "warning"
       ELSE "none"

\* FieldForm.vue 94-114: the error under the type dropdown, $error being
\* $dirty && $invalid
DisplayType ==
  IF formKind = "table" \/ forcedType # Null THEN "notRendered"
  ELSE IF Dirty("type") /\ Invalid("type") THEN "requiredField"
  ELSE "none"

(***************************************************************************)
(* The field type registry and the dynamic sub-form.                       *)
(***************************************************************************)
Registry ==
  [number |-> [canBePrimaryField |-> TRUE, formComponent |-> Null],
   link_to_table |-> [canBePrimaryField |-> FALSE,
                      formComponent |-> "FieldLinkRowSubForm"],
   created_on |-> [canBePrimaryField |-> FALSE,
                   formComponent |-> "FieldCreatedOnLastModifiedSubForm"],
   last_modified |-> [canBePrimaryField |-> FALSE,
                      formComponent |-> "FieldCreatedOnLastModifiedSubForm"]]

fieldTypes == DOMAIN Registry

getFormComponent(type) == Registry[type].formComponent

\* hasFormComponent of the form with values.type = type
HasFormComponentFor(type) == type # "" /\ getFormComponent(type) # Null

\* $refs.childForm when no sub-form is mounted
NoChild == [component |-> Null, uid |-> 0, entered |-> FALSE]

hasFormComponent == HasFormComponentFor(values.type)

\* <component :is="getFormComponent(values.type)" ref="childForm"> after values.type
\* became type: the v-if removes the instance when there is no component; an
\* instance of the same component is patched in place (there is no :key), and
\* any other component is mounted as a new instance
PatchChildForm(old, type, uid) ==
  IF ~ HasFormComponentFor(type) THEN NoChild
  ELSE IF old # NoChild /\ old.component = getFormComponent(type) THEN old
  ELSE [component |-> getFormComponent(type), uid |-> uid, entered |-> FALSE]

(***************************************************************************)
(* The tooltip directive (src/unnamed/part_000): values and initial state.  *)
(***************************************************************************)
\* a delay that is undefined
NoDelay == -1

\* the binding values of v-tooltip: a string, or an object { value, delay }
Bindings ==
  { [object |-> FALSE, value |-> v, delay |-> NoDelay] : v \in {"", "a", "b"} }
    \cup { [object |-> TRUE, value |-> "a", delay |-> NoDelay],
           [object |-> TRUE, value |-> "a", delay |-> 100],
           [object |-> TRUE, value |-> "", delay |-> 100] }

\* !!v
Truthy(v) == v \notin {"", Null, Undefined}

\* value.delay || 0
DelayOrZero(d) == IF d = NoDelay THEN 0 ELSE d

\* the host element before the directive is bound: no property is set, no
\* listener is registered, no timer runs (0: null or undefined)
InitTooltip ==
  /\ directive = "fresh"
  /\ el = [value |-> Undefined, delay |-> NoDelay, tooltipElement |-> 0, timeOut |-> 0]
  /\ currentListener = FALSE
  /\ staleListeners = 0
  /\ timeouts = {}
  /\ nextTimeout = 1
  /\ tooltips = {}
  /\ nextElement = 1
  /\ hover = FALSE
  /\ terminated = FALSE
  /\ tipOp = "none"

(***************************************************************************)
(* The state after the form has been constructed and mounted.              *)
(***************************************************************************)
InitProps ==
  \/ /\ formKind = "table"
     /\ creating = FALSE
     /\ primary = FALSE
     /\ forcedType = Null
     /\ fields = << >>
     /\ database \in Databases
     /\ defaultValues = OrdersTable
  \/ /\ formKind = "field"
     /\ creating = TRUE
     /\ primary = FALSE
     /\ forcedType = Null
     /\ fields \in FieldStores
     /\ database = << >>
     /\ defaultValues = EmptyObject
  \/ /\ formKind = "field"
     /\ creating = FALSE
     /\ fields \in FieldStores
     /\ database = << >>
     /\ defaultValues \in {fields[i] : i \in DOMAIN fields} \cup {PrimaryField}
     /\ primary = (defaultValues = PrimaryField)
     /\ forcedType = Null

\* data(), then the form mixin's mounted hook copies the default values
InitForm ==
  /\ values = DefaultsOver(DataValues, defaultValues)
  /\ dirty = {}
  /\ submitted = NoEvent
  /\ api_name_focused = FALSE
  /\ apiNameWarningInterval = 0
  /\ intervals = {}
  /\ fired = {}
  /\ nextTimerId = 1
  /\ apiNameHasFocus = FALSE
  /\ formAlive = TRUE
  /\ childForm = IF formKind = "field" THEN PatchChildForm(NoChild, values.type, 1)
                 ELSE NoChild
  /\ nextInstance = IF childForm = NoChild THEN 1 ELSE 2
  /\ loading = FALSE
  /\ contextOpen = TRUE
  /\ pending = 0
  /\ lastOp = "mount"
  /\ errorSink = {}
  /\ contextEvents = {}

Init == InitProps /\ InitForm /\ InitTooltip

\* the user can reach the form's inputs
Interactive == formAlive /\ contextOpen

(***************************************************************************)
(* Inputs: v-model on the two text inputs, blur of the name input.         *)
(***************************************************************************)
\* FieldForm.vue 7, TableForm.vue 7
InputName(S) ==
  /\ Interactive
  /\ \E s \in S : values' = [values EXCEPT !.name = s]
  /\ submitted' = NoEvent
  /\ lastOp' = "inputName"
  /\ UNCHANGED tooltipVars
  /\ errorSink' = {}
  /\ contextEvents' = {}
  /\ UNCHANGED << propVars, defaultValues, dirty, hazardVars, formAlive, childVars,
                  contextVars >>

\* FieldForm.vue 45-49 (rendered unless creating), TableForm.vue 32
InputApiName(S) ==
  /\ Interactive
  /\ "api_name" \in DOMAIN values
  /\ \E s \in S : values' = [values EXCEPT !.api_name = s]
  /\ submitted' = NoEvent
  /\ lastOp' = "inputApiName"
  /\ UNCHANGED tooltipVars
  /\ errorSink' = {}
  /\ contextEvents' = {}
  /\ UNCHANGED << propVars, defaultValues, dirty, hazardVars, formAlive, childVars,
                  contextVars >>

\* @blur="$v.values.name.$touch()"
BlurName ==
  /\ Interactive
  /\ dirty' = dirty \cup {"name"}
  /\ submitted' = NoEvent
  /\ lastOp' = "blurName"
  /\ UNCHANGED tooltipVars
  /\ errorSink' = {}
  /\ contextEvents' = {}
  /\ UNCHANGED << propVars, defaultValues, values, hazardVars, formAlive, childVars,
                  contextVars >>

(***************************************************************************)
(* The hazard warning: FieldForm.vue 245-256, TableForm.vue 126-137.       *)
(***************************************************************************)
\* apiNameFocus without its clearInterval
ClearOnFocus_Never(live, handle) == live

\* apiNameFocus clearing the interval only once its callback has run
ClearOnFocus_OnceFired(live, handle) ==
  IF handle # 0 /\ handle \in fired THEN live \ {handle} ELSE live

\* clearInterval(handle) inside apiNameFocus
ClearOnFocus(live, handle) ==
  IF handle # 0 THEN live \ {handle} ELSE live

\* @focus="apiNameFocus()"
apiNameFocus ==
  /\ Interactive
  /\ "api_name" \in DOMAIN values
  /\ ~ apiNameHasFocus
  /\ apiNameHasFocus' = TRUE
  /\ intervals' = ClearOnFocus(intervals, apiNameWarningInterval)
  /\ api_name_focused' = TRUE
  /\ submitted' = NoEvent
  /\ lastOp' = "focus"
  /\ UNCHANGED tooltipVars
  /\ errorSink' = {}
  /\ contextEvents' = {}
  /\ UNCHANGED << propVars, defaultValues, values, dirty, apiNameWarningInterval,
                  fired, nextTimerId, formAlive, childVars, contextVars >>

\* @blur="$v.values.api_name.$touch(); apiNameUnfocus()"
apiNameUnfocus ==
  /\ Interactive
  /\ apiNameHasFocus
  /\ nextTimerId <= MaxTimers
  /\ apiNameHasFocus' = FALSE
  /\ dirty' = dirty \cup {"api_name"}
  /\ intervals' = intervals \cup {nextTimerId}
  /\ apiNameWarningInterval' = nextTimerId
  /\ nextTimerId' = nextTimerId + 1
  /\ submitted' = NoEvent
  /\ lastOp' = "blur"
  /\ UNCHANGED tooltipVars
  /\ errorSink' = {}
  /\ contextEvents' = {}
  /\ UNCHANGED << propVars, defaultValues, values, api_name_focused, fired,
                  formAlive, childVars, contextVars >>

\* the callback given to setInterval runs, every 500 ms for as long as the
\* interval is live, also on a form that has been destroyed
TimerFire ==
  /\ \E t \in intervals : fired' = fired \cup {t}
  /\ api_name_focused' = FALSE
  /\ submitted' = NoEvent
  /\ lastOp' = "timerFire"
  /\ UNCHANGED tooltipVars
  /\ errorSink' = {}
  /\ contextEvents' = {}
  /\ UNCHANGED << propVars, defaultValues, values, dirty, apiNameWarningInterval,
                  intervals, nextTimerId, apiNameHasFocus, formAlive, childVars,
                  contextVars >>

(***************************************************************************)
(* Field type dropdown and sub-form: FieldForm.vue 94-125.                 *)
(***************************************************************************)
\* :disabled="primary && !fieldType.canBePrimaryField"
ItemDisabled(type) == primary /\ ~ Registry[type].canBePrimaryField

\* the user picks a type: v-model sets values.type, the dropdown hides and
\* touches the type, and the re-render patches the dynamic sub-form
SelectType ==
  /\ Interactive
  /\ formKind = "field"
  /\ forcedType = Null
  /\ \E type \in fieldTypes :
       /\ ~ ItemDisabled(type)
       /\ type # values.type
       /\ values' = [values EXCEPT !.type = type]
       /\ childForm' = PatchChildForm(childForm, type, nextInstance)
  /\ nextInstance' =
       IF childForm' # NoChild /\ childForm'.uid = nextInstance
       THEN nextInstance + 1 ELSE nextInstance
  /\ nextInstance' <= MaxInstances + 1
  /\ dirty' = dirty \cup {"type"}
  /\ submitted' = NoEvent
  /\ lastOp' = "selectType"
  /\ UNCHANGED tooltipVars
  /\ errorSink' = {}
  /\ contextEvents' = {}
  /\ UNCHANGED << propVars, defaultValues, hazardVars, formAlive, contextVars >>

\* the user enters something in the mounted sub-form
EditSubForm ==
  /\ Interactive
  /\ childForm # NoChild
  /\ childForm' = [childForm EXCEPT !.entered = TRUE]
  /\ submitted' = NoEvent
  /\ lastOp' = "editSubForm"
  /\ UNCHANGED tooltipVars
  /\ errorSink' = {}
  /\ contextEvents' = {}
  /\ UNCHANGED << propVars, defaultValues, values, dirty, hazardVars, formAlive,
                  nextInstance, contextVars >>

(***************************************************************************)
(* Form mixin (core/mixins/form): submit and reset.                        *)
(***************************************************************************)
\* submit(): touch every field, emit `submitted` with the values when valid
FormSubmit ==
  /\ Interactive
  /\ dirty' = DOMAIN values
  /\ submitted' = IF isFormValid THEN {values} ELSE NoEvent
  /\ lastOp' = IF isFormValid THEN "submit" ELSE "submitBlocked"
  /\ UNCHANGED tooltipVars
  /\ errorSink' = {}
  /\ contextEvents' = {}
  /\ UNCHANGED << propVars, defaultValues, values, hazardVars, formAlive, childVars,
                  contextVars >>

\* reset(): the values are restored from the default values dv and the dirty
\* flags are cleared
FormReset(dv) ==
  /\ values' = DefaultsOver(DataValues, dv)
  /\ dirty' = {}

(***************************************************************************)
(* UpdateTableContext: TableForm.vue 169-237.                              *)
(***************************************************************************)
\* the table of the database list replaced by its new version
ReplaceTable(db, table) ==
  [i \in DOMAIN db |-> IF db[i].id = table.id THEN table ELSE db[i]]

\* a submit button that is enabled whatever loading is
SubmitEnabled_Always == TRUE

\* :disabled="loading" on the form's one submit button: while it is disabled
\* neither a click nor Enter in an input submits the form
SubmitEnabled == ~ loading

\* the form's submit, whose `submitted` event runs submit(values) up to the await
ContextSubmit ==
  /\ Interactive
  /\ formKind = "table"
  /\ SubmitEnabled
  /\ pending < MaxDispatch
  /\ dirty' = DOMAIN values
  /\ IF isFormValid
     THEN /\ submitted' = {values}
          /\ loading' = TRUE
          /\ pending' = pending + 1
          /\ lastOp' = "submit"
     ELSE /\ submitted' = NoEvent
          /\ lastOp' = "submitBlocked"
          /\ UNCHANGED << loading, pending >>
  /\ UNCHANGED tooltipVars
  /\ errorSink' = {}
  /\ contextEvents' = {}
  /\ UNCHANGED << propVars, defaultValues, values, hazardVars, formAlive, childVars,
                  contextOpen >>

\* the dispatch resolves: lines 216-219
DispatchResolve ==
  /\ pending > 0
  /\ pending' = pending - 1
  /\ IF formAlive THEN FormReset(defaultValues) ELSE UNCHANGED << values, dirty >>
  /\ loading' = FALSE
  /\ contextOpen' = FALSE
  /\ submitted' = NoEvent
  /\ lastOp' = "submitDone"
  /\ UNCHANGED tooltipVars
  /\ errorSink' = {}
  /\ contextEvents' = {"hide", "updated"}
  /\ UNCHANGED << propVars, defaultValues, hazardVars, formAlive, childVars >>

\* the catch block with notifyIf called whether or not the form handled the error
ErrorSinks_AlwaysNotify(formExists, handled) ==
  (IF formExists /\ handled THEN {"handleErrorByForm"} ELSE {}) \cup {"notifyIf"}

\* lines 222-228: who takes the error; handled is what handleErrorByForm returns
ErrorSinks(formExists, handled) ==
  IF formExists /\ handled THEN {"handleErrorByForm"} ELSE {"notifyIf"}

\* the dispatch rejects: lines 220-229
DispatchReject ==
  /\ pending > 0
  /\ pending' = pending - 1
  /\ loading' = FALSE
  /\ submitted' = NoEvent
  /\ lastOp' = "submitFailed"
  /\ UNCHANGED tooltipVars
  /\ \E handled \in BOOLEAN : errorSink' = ErrorSinks(formAlive, handled)
  /\ contextEvents' = {}
  /\ UNCHANGED << propVars, defaultValues, values, dirty, hazardVars, formAlive,
                  childVars, contextOpen >>

\* cancel(): reset() on the next tick, hide()
Cancel ==
  /\ Interactive
  /\ formKind = "table"
  /\ FormReset(defaultValues)
  /\ contextOpen' = FALSE
  /\ submitted' = NoEvent
  /\ lastOp' = "cancel"
  /\ UNCHANGED tooltipVars
  /\ errorSink' = {}
  /\ contextEvents' = {"hide"}
  /\ UNCHANGED << propVars, defaultValues, hazardVars, formAlive, childVars, loading,
                  pending >>

\* a watcher on table that does not reset the form
TableChanged_NoReset ==
  /\ formAlive
  /\ formKind = "table"
  /\ \E table \in {OrdersTable, OrdersRenamed} \ {defaultValues} :
       /\ defaultValues' = table
       /\ database' = ReplaceTable(database, table)
  /\ submitted' = NoEvent
  /\ lastOp' = "tableChanged"
  /\ errorSink' = {}
  /\ contextEvents' = {}
  /\ UNCHANGED << tooltipVars, values, dirty, formKind, creating, primary, forcedType,
                  fields, hazardVars, formAlive, childVars, contextVars >>

\* watch.table: an outside source replaces the table prop, reset() on the next tick
TableChanged ==
  /\ formAlive
  /\ formKind = "table"
  /\ \E table \in {OrdersTable, OrdersRenamed} \ {defaultValues} :
       /\ defaultValues' = table
       /\ database' = ReplaceTable(database, table)
       /\ FormReset(table)
  /\ submitted' = NoEvent
  /\ lastOp' = "tableChanged"
  /\ UNCHANGED tooltipVars
  /\ errorSink' = {}
  /\ contextEvents' = {}
  /\ UNCHANGED << formKind, creating, primary, forcedType, fields, hazardVars,
                  formAlive, childVars, contextVars >>

\* context mixin show(): the popup is opened again
Show ==
  /\ formAlive
  /\ formKind = "table"
  /\ ~ contextOpen
  /\ contextOpen' = TRUE
  /\ submitted' = NoEvent
  /\ lastOp' = "show"
  /\ UNCHANGED tooltipVars
  /\ errorSink' = {}
  /\ contextEvents' = {}
  /\ UNCHANGED << propVars, defaultValues, values, dirty, hazardVars, formAlive,
                  childVars, loading, pending >>

\* the component is destroyed; neither form declares a destroy hook
Destroy ==
  /\ formAlive
  /\ formAlive' = FALSE
  /\ apiNameHasFocus' = FALSE
  /\ childForm' = NoChild
  /\ submitted' = NoEvent
  /\ lastOp' = "destroy"
  /\ UNCHANGED tooltipVars
  /\ errorSink' = {}
  /\ contextEvents' = {}
  /\ UNCHANGED << propVars, defaultValues, values, dirty, api_name_focused,
                  apiNameWarningInterval, intervals, fired, nextTimerId,
                  nextInstance, contextVars >>

\* a render of the template: vuelidate evaluates every rule of every key on
\* the current values
EvaluateRules ==
  /\ formAlive
  /\ values' = ValuesAfterRules(values)
  /\ fields' = FieldsAfterRules(fields)
  /\ submitted' = NoEvent
  /\ lastOp' = "validate"
  /\ UNCHANGED tooltipVars
  /\ errorSink' = {}
  /\ contextEvents' = {}
  /\ UNCHANGED << formKind, creating, primary, forcedType, database, defaultValues,
                  dirty, hazardVars, formAlive, childVars, contextVars >>

(***************************************************************************)
(* The tooltip directive (src/unnamed/part_000): hooks and events.          *)
(***************************************************************************)
\* initialize(el): new listener functions are assigned to el and added to the
\* host; a pair added by an earlier call stays on the host and el no longer
\* refers to it
initialize ==
  /\ staleListeners' = staleListeners + (IF currentListener THEN 1 ELSE 0)
  /\ staleListeners' <= MaxStale
  /\ currentListener' = TRUE
  /\ terminated' = FALSE
  /\ UNCHANGED tooltips

\* terminate(el): the element el.tooltipElement refers to is removed, the
\* listeners el refers to are removed; el.timeOut is not looked at
terminate(byEvent) ==
  /\ tooltips' = tooltips \ {el.tooltipElement}
  /\ currentListener' = FALSE
  /\ terminated' = IF byEvent THEN terminated ELSE TRUE
  /\ UNCHANGED staleListeners

\* update(el, binding)
update(binding) ==
  LET same == IF binding.object
              THEN binding.value = el.value /\ binding.delay = el.delay
              ELSE binding.value = el.value
      delay == IF binding.object THEN DelayOrZero(binding.delay) ELSE el.delay
  IN  IF same
      THEN UNCHANGED << el, currentListener, staleListeners, tooltips, terminated >>
      ELSE IF Truthy(binding.value) /\ el.tooltipElement = 0
      THEN /\ el' = [el EXCEPT !.value = binding.value, !.delay = delay]
           /\ initialize
      ELSE IF ~ Truthy(binding.value)
      THEN /\ el' = [el EXCEPT !.value = binding.value, !.delay = delay,
                               !.tooltipElement = 0]
           /\ terminate(FALSE)
      ELSE /\ el' = [el EXCEPT !.value = binding.value, !.delay = delay]
           /\ UNCHANGED << currentListener, staleListeners, tooltips, terminated >>

\* bind(el, binding): el.tooltipElement = null, then update
Bind ==
  /\ directive = "fresh"
  /\ directive' = "bound"
  /\ \E binding \in Bindings : update(binding)
  /\ tipOp' = "bind"
  /\ UNCHANGED << timeouts, nextTimeout, nextElement, hover >>
  /\ UNCHANGED formVars

\* the update hook, called on every re-render of the host's component
Update ==
  /\ directive = "bound"
  /\ \E binding \in Bindings : update(binding)
  /\ tipOp' = "update"
  /\ UNCHANGED << directive, timeouts, nextTimeout, nextElement, hover >>
  /\ UNCHANGED formVars

\* unbind(el, binding)
Unbind ==
  /\ directive = "bound"
  /\ directive' = "unbound"
  /\ el' = [el EXCEPT !.tooltipElement = 0]
  /\ terminate(FALSE)
  /\ hover' = FALSE
  /\ tipOp' = "unbind"
  /\ UNCHANGED << timeouts, nextTimeout, nextElement >>
  /\ UNCHANGED formVars

\* the number of mouseenter listeners a mouseenter runs: every pair on the host,
\* oldest first; when the first one finds a tooltip element its terminate
\* removes the pair el refers to, which then runs only if it is that first one
EnterRuns ==
  IF el.tooltipElement # 0
  THEN IF staleListeners > 0 THEN staleListeners
       ELSE IF currentListener THEN 1 ELSE 0
  ELSE staleListeners + (IF currentListener THEN 1 ELSE 0)

\* the pointer enters the host: tooltipMouseEnterEvent of every listener pair
MouseEnter ==
  /\ directive = "bound"
  /\ ~ hover
  /\ hover' = TRUE
  /\ IF EnterRuns = 0
     THEN UNCHANGED << el, currentListener, staleListeners, tooltips, terminated,
                       timeouts, nextTimeout >>
     ELSE /\ IF el.tooltipElement # 0
             THEN terminate(TRUE)
             ELSE UNCHANGED << currentListener, staleListeners, tooltips, terminated >>
          /\ IF Truthy(el.value)
             THEN /\ nextTimeout + EnterRuns - 1 <= MaxTimeouts
                  /\ timeouts' = timeouts \cup (nextTimeout..(nextTimeout + EnterRuns - 1))
                  /\ nextTimeout' = nextTimeout + EnterRuns
                  /\ el' = [el EXCEPT !.tooltipElement = 0,
                                      !.timeOut = nextTimeout + EnterRuns - 1]
             ELSE /\ el' = [el EXCEPT !.tooltipElement = 0]
                  /\ UNCHANGED << timeouts, nextTimeout >>
  /\ tipOp' = "mouseenter"
  /\ UNCHANGED << directive, nextElement >>
  /\ UNCHANGED formVars

\* the pointer leaves the host: tooltipMoveLeaveEvent of every listener pair
MouseLeave ==
  /\ directive = "bound"
  /\ hover
  /\ hover' = FALSE
  /\ IF staleListeners = 0 /\ ~ currentListener
     THEN UNCHANGED << el, timeouts, tooltips >>
     ELSE /\ timeouts' = timeouts \ {el.timeOut}
          /\ tooltips' = tooltips \ {el.tooltipElement}
          /\ el' = [el EXCEPT !.timeOut = 0, !.tooltipElement = 0]
  /\ tipOp' = "mouseleave"
  /\ UNCHANGED << directive, currentListener, staleListeners, nextTimeout,
                  nextElement, terminated >>
  /\ UNCHANGED formVars

\* the callback of a pending setTimeout runs, on a bound or an unbound host
TimeoutFire ==
  /\ nextElement <= MaxElements
  /\ \E t \in timeouts : timeouts' = timeouts \ {t}
  /\ tooltips' = tooltips \cup {nextElement}
  /\ el' = [el EXCEPT !.tooltipElement = nextElement, !.timeOut = 0]
  /\ nextElement' = nextElement + 1
  /\ tipOp' = "timeout"
  /\ UNCHANGED << directive, currentListener, staleListeners, nextTimeout, hover,
                  terminated >>
  /\ UNCHANGED formVars

(***************************************************************************)
(* Specifications.                                                         *)
(***************************************************************************)
\* what the user types in the specification of the whole form
SomeNames == { << >>, <<"A">> }
SomeApiNames == { << >>, my_id, Repeat("A") }

\* the table form in its context and the field form: every handler
Next ==
  \/ InputName(SomeNames)
  \/ InputApiName(SomeApiNames)
  \/ BlurName
  \/ apiNameFocus
  \/ apiNameUnfocus
  \/ TimerFire
  \/ Destroy
  \/ ContextSubmit
  \/ DispatchResolve
  \/ DispatchReject
  \/ Cancel
  \/ TableChanged
  \/ Show

Spec == Init /\ [][Next]_vars

\* the validation rules on every input of the alphabet
NextRules ==
  \/ InputApiName(ApiNameInputs)
  \/ InputName(NameExamples)
  \/ BlurName
  \/ FormSubmit
  \/ EvaluateRules

SpecRules == Init /\ [][NextRules]_vars

\* the field form and its type dropdown
NextField ==
  \/ InputName(SomeNames)
  \/ BlurName
  \/ SelectType
  \/ EditSubForm
  \/ FormSubmit
  \/ Destroy

InitField == Init /\ formKind = "field"

SpecField == InitField /\ [][NextField]_vars

\* the hazard warning next to the rules: typing, focus, blur, the interval and
\* the form's submit
NextHazard ==
  \/ InputApiName(SomeApiNames)
  \/ apiNameFocus
  \/ apiNameUnfocus
  \/ TimerFire
  \/ FormSubmit

SpecHazard == Init /\ [][NextHazard]_vars

\* the values of the forcedType prop
ForcedTypes == {Null, "number", "link_to_table"}

\* the field form under every combination of its props primary and forcedType;
\* an edited field is the primary one exactly when primary is set
InitPrimaryProps ==
  /\ formKind = "field"
  /\ database = << >>
  /\ fields \in FieldStores
  /\ forcedType \in ForcedTypes
  /\ \/ /\ creating = TRUE
        /\ defaultValues = EmptyObject
        /\ primary \in BOOLEAN
     \/ /\ creating = FALSE
        /\ defaultValues \in {fields[i] : i \in DOMAIN fields} \cup {PrimaryField}
        /\ primary = (defaultValues = PrimaryField)

InitPrimary == InitPrimaryProps /\ InitForm /\ InitTooltip

NextPrimary ==
  \/ SelectType
  \/ EditSubForm
  \/ InputName(SomeNames)
  \/ BlurName
  \/ FormSubmit

SpecPrimary == InitPrimary /\ [][NextPrimary]_vars

\* the tooltip directive on one host element
NextTooltip ==
  \/ Bind
  \/ Update
  \/ MouseEnter
  \/ MouseLeave
  \/ TimeoutFire
  \/ Unbind

\* the form the host element is part of stays as mounted
InitTooltipHost ==
  /\ Init
  /\ formKind = "table"
  /\ database = <<OrdersTable>>

SpecTooltip == InitTooltipHost /\ [][NextTooltip]_vars

\* the table form in its context, without the hazard warning
NextContext ==
  \/ InputName(SomeNames)
  \/ InputApiName(SomeApiNames)
  \/ BlurName
  \/ ContextSubmit
  \/ DispatchResolve
  \/ DispatchReject
  \/ Cancel
  \/ TableChanged
  \/ Show
  \/ Destroy

InitContext == Init /\ formKind = "table"

SpecContext == InitContext /\ [][NextContext]_vars

(***************************************************************************)
(* Properties.                                                             *)
(***************************************************************************)
\* the format an API name must have: after trimming it matches ^[a-z0-9_]+$,
\* neither starts nor ends with an underscore and has no double underscore
ValidApiNameFormat(s) ==
  LET p == Trim(s)
  IN  /\ MatchesApiNameChars(p)
      /\ p[1] # "_"
      /\ p[Len(p)] # "_"
      /\ ~ HasDoubleUnderscore(p)

\* C1: the format rule passes on the api_name typed into the form exactly when
\* it has the API name format (so it passes on my_id and fails on _id, id_, my__id)
C1_ApiNameFormatRule ==
  "api_name" \in DOMAIN values =>
    (mustUseValidAPINameCharacters(values.api_name)
       <=> ValidApiNameFormat(values.api_name))

\* the input is focused, or it was blurred and the interval that blur started
\* has not run yet
Armed ==
  \/ apiNameHasFocus
  \/ apiNameWarningInterval \in intervals \ fired

\* C2: from a focus on, through a blur and a re-focus that comes before the
\* interval of the blur has run, the warning flag stays true, and while the input
\* is focused no interval is left that could set it to false
C2_NoFlicker ==
  /\ apiNameHasFocus => api_name_focused /\ intervals = {}
  /\ Armed => api_name_focused

\* C2 witness: a re-focus has cancelled the interval of the preceding blur
\* before it ran
C2_Refocused ==
  /\ lastOp = "focus"
  /\ apiNameWarningInterval # 0
  /\ apiNameWarningInterval \notin fired
  /\ apiNameWarningInterval \notin intervals
  /\ api_name_focused

\* C3: once the interval started by the blur has run, the warning flag is false
\* and no hide timer of the form is left pending
C3_TimerReturnsToIdle ==
  lastOp = "timerFire" => ~ api_name_focused /\ intervals = {}

\* C4: after a successful submit, a cancel, a reset caused by a change of the
\* table and the destruction of the form, no hide timer is pending
C4_ExitCancelsTimer ==
  lastOp \in {"submitDone", "cancel", "tableChanged", "destroy"} => intervals = {}

\* C5: in the table form a name or api_name that, trimmed, equals that of
\* another table of the database makes the form invalid and blocks the submit
C5_TableValuesUnique ==
  ( /\ formKind = "table"
    /\ \E i \in DOMAIN database :
         /\ database[i].id # existingTableId
         /\ \/ database[i].api_name = Trim(values.api_name)
            \/ database[i].name = Trim(values.name) )
  => ~ isFormValid /\ submitted = NoEvent

\* the trimmed input equals attribute attr of a field of the table other than
\* the one being edited, character by character
ClashesWithOtherField(attr, s) ==
  \E i \in DOMAIN fields :
    fields[i].id # defaultValues.id /\ fields[i][attr] = Trim(s)

\* C6: each uniqueness rule of the field form fails exactly when the trimmed
\* input equals, case-sensitively, that attribute of another field of the
\* table; an unchanged value of the edited field passes
C6_FieldUniqueness ==
  formKind = "field" =>
    /\ mustHaveUniqueFieldName(values.name)
         <=> ~ ClashesWithOtherField("name", values.name)
    /\ "api_name" \in DOMAIN values =>
         /\ mustHaveUniqueFieldAPIName(values.api_name)
              <=> ~ ClashesWithOtherField("api_name", values.api_name)
         /\ values.api_name = defaultValues.api_name
              => mustHaveUniqueFieldAPIName(values.api_name)
    /\ ~ creating /\ values.name = defaultValues.name
         => mustHaveUniqueFieldName(values.name)

\* C6 witness: while a field of the store is edited, an api_name typed with
\* surrounding blanks clashes with another field
C6_ClashFound ==
  /\ formKind = "field"
  /\ ~ creating
  /\ \E i \in DOMAIN fields : fields[i].id = defaultValues.id
  /\ values.api_name # Trim(values.api_name)
  /\ ~ mustHaveUniqueFieldAPIName(values.api_name)

\* C7: a creating field form has no api_name among its values, its allowed
\* values, its validation rules and the values it emits; an editing one has it
\* in all of them
C7_CreatingHasNoApiName ==
  formKind = "field" =>
    IF creating
    THEN /\ "api_name" \notin DOMAIN values
         /\ "api_name" \notin allowedValues
         /\ "api_name" \notin DOMAIN validations
         /\ \A v \in submitted : "api_name" \notin DOMAIN v
    ELSE /\ "api_name" \in DOMAIN values
         /\ "api_name" \in allowedValues
         /\ "api_name" \in DOMAIN validations
         /\ \A v \in submitted : "api_name" \in DOMAIN v

\* C7 witness: a creating field form has passed validation and emitted its values
C7_CreatingSubmitted ==
  formKind = "field" /\ creating /\ lastOp = "submit" /\ submitted # NoEvent

\* the message the template has for a rule
MessageOf(rule) ==
  CASE rule = "required" -> "requiredField"
    [] rule = "maxLength" -> "nameTooLong"
    [] rule \in {"mustHaveUniqueFieldName", "mustHaveUniqueFieldAPIName"}
         -> "fieldAlreadyExists"
    [] rule = "mustUseValidAPINameCharacters" -> "invalidApiNameFormat"
    [] rule = "mustNotClashWithReservedName" -> "nameNotAllowed"

\* the message of the first rule of order that fails on values[key]
FirstFailingMessage(key, order) ==
  LET failing == {i \in DOMAIN order : ~ V(key, order[i])}
  IN  IF failing = {} THEN "noError"
      ELSE MessageOf(order[CHOOSE i \in failing : \A j \in failing : i <= j])

\* the error message shown under the input of key
ErrorShown(key) ==
  LET shown == IF key = "name" THEN DisplayName ELSE DisplayApiName
  IN  IF shown \in {"none", "warning"} THEN "noError" ELSE shown

\* C8 as claimed: the message shown for a dirty field is that of the first
\* failing rule in the order validations() declares the rules
C8_DeclarationOrder ==
  \A key \in {"name", "api_name"} \cap DOMAIN values :
    Dirty(key) => ErrorShown(key) = FirstFailingMessage(key, validations[key])

\* the order in which the v-if / v-else-if chain of a field tests its rules
ChainOrder(key) ==
  IF formKind = "table"
  THEN IF key = "name" THEN <<"required", "maxLength">>
       ELSE <<"required", "mustUseValidAPINameCharacters", "maxLength">>
  ELSE IF key = "name"
       THEN <<"required", "mustHaveUniqueFieldName", "mustNotClashWithReservedName",
              "maxLength">>
       ELSE <<"required", "mustHaveUniqueFieldAPIName",
              "mustUseValidAPINameCharacters", "maxLength">>

\* C8 as amended: the message shown for a dirty field is that of the first
\* failing rule in the order of the template's chain, which tests maxLength last
C8_TemplateOrder ==
  \A key \in {"name", "api_name"} \cap DOMAIN values :
    Dirty(key) => ErrorShown(key) = FirstFailingMessage(key, ChainOrder(key))

\* C8 witness: a dirty field name fails the unique rule and the length rule,
\* and the message of the unique rule is the one shown
C8_TwoRulesFail ==
  /\ formKind = "field"
  /\ Dirty("name")
  /\ ~ V("name", "maxLength")
  /\ ~ V("name", "mustHaveUniqueFieldName")
  /\ DisplayName = "fieldAlreadyExists"

\* C9 as claimed: while the input is focused, and after a blur until the
\* interval runs, the warning is what the form displays under the input
C9_WarningDisplayed ==
  formAlive /\ Armed => DisplayApiName = "warning"

\* C9 as amended: in those states the flag is true, and the warning is
\* displayed exactly when the api_name field shows no error, that is unless it
\* is dirty and fails one of its rules
C9_WarningUnlessError ==
  formAlive /\ Armed =>
    /\ api_name_focused
    /\ DisplayApiName = "warning" <=> ~ (Dirty("api_name") /\ Invalid("api_name"))

\* C9 witness: after a blur, before the interval has run, the error of a dirty
\* invalid api_name is displayed in place of the warning
C9_ErrorReplacesWarning ==
  /\ formAlive
  /\ lastOp = "blur"
  /\ Armed
  /\ Invalid("api_name")
  /\ DisplayApiName \notin {"warning", "none"}

\* C10: after a change of the type, the sub-form that is mounted is in its
\* fresh-mount state: nothing entered before the change is left in it
C10_TypeSwitchDiscards ==
  lastOp = "selectType" /\ childForm # NoChild => ~ childForm.entered

\* the value of key is empty once trimmed
EmptyAfterTrim(key) == Len(Trim(values[key])) = 0

\* C11 as claimed: on a name or api_name that is empty after trimming, required
\* is the only rule that fails; format, uniqueness, reserved word and length
\* all hold
C11_OnlyRequiredFails ==
  \A key \in {"name", "api_name"} \cap DOMAIN values :
    EmptyAfterTrim(key) =>
      \A i \in DOMAIN validations[key] :
        validations[key][i] # "required" => V(key, validations[key][i])

\* C11 as amended: on a dirty name or api_name that is empty after trimming the
\* one message displayed is that of required, whichever other rules fail too
C11_OnlyRequiredShown ==
  \A key \in {"name", "api_name"} \cap DOMAIN values :
    Dirty(key) /\ EmptyAfterTrim(key) =>
      /\ ~ V(key, "required")
      /\ ErrorShown(key) = "requiredField"

\* C11 witness: a dirty api_name of blanks only fails required and the format
\* rule, and the message of required is the one displayed
C11_BlankFailsTwoRules ==
  /\ Dirty("api_name")
  /\ values.api_name # << >>
  /\ EmptyAfterTrim("api_name")
  /\ ~ V("api_name", "required")
  /\ ~ V("api_name", "mustUseValidAPINameCharacters")
  /\ DisplayApiName = "requiredField"

\* C12: an evaluation of the rules leaves values.name, values.api_name and the
\* field list as they were, and the values a submit emits are the raw values of
\* the form, blanks included
C12_RulesKeepValues ==
  [][ /\ lastOp' = "validate" => values' = values /\ fields' = fields
      /\ \A v \in submitted' : v = values' ]_vars

\* C12 witness: the rules have been evaluated on an api_name typed with
\* surrounding blanks, they pass on it, and the blanks are still there
C12_UntrimmedKept ==
  /\ lastOp = "validate"
  /\ "api_name" \in DOMAIN values
  /\ values.api_name # Trim(values.api_name)
  /\ Len(Trim(values.api_name)) > 0
  /\ ~ Invalid("api_name")

\* C13: a focus, a blur and a run of the interval leave the validity of the form
\* and of each of its fields as it was, and a submit is blocked only when a rule
\* fails on the values, whatever the warning flag and the pending intervals are
C13_HazardNeverAffectsValidity ==
  [][ /\ lastOp' \in {"focus", "blur", "timerFire"} =>
           /\ isFormValid' = isFormValid
           /\ \A key \in DOMAIN validations : Invalid(key)' = Invalid(key)
      /\ lastOp' = "submitBlocked" =>
           \E key \in DOMAIN validations : \E i \in DOMAIN validations[key] :
             ~ V(key, validations[key][i])
      /\ lastOp' = "submit" => isFormValid /\ submitted' = {values} ]_vars

\* C13 witness: valid values have been submitted while the warning flag was set
\* and the interval of a blur was pending
C13_SubmittedWhileWarned ==
  /\ lastOp = "submit"
  /\ submitted # NoEvent
  /\ api_name_focused
  /\ apiNameWarningInterval \in intervals \ fired

\* C14: under a field that is not dirty no error message is displayed, be its
\* value invalid or not; a message is displayed only under a dirty field
C14_NoErrorUnlessDirty ==
  /\ \A key \in {"name", "api_name"} \cap DOMAIN values :
       ~ Dirty(key) => ErrorShown(key) = "noError"
  /\ ~ Dirty("type") => DisplayType # "requiredField"

\* C14 witness: an invalid name has been typed into a name input that was never
\* touched, and no message is displayed under it
C14_UntouchedInvalidSilent ==
  /\ lastOp = "inputName"
  /\ ~ Dirty("name")
  /\ Invalid("name")
  /\ DisplayName = "none"

C16_TooltipOnlyWithValue ==
  tooltips # {} => Truthy(el.value)

\* C17: once terminate has run for an empty value or an unbind, no tooltip
\* element of the host is in the document, also when a show-timer was pending
C17_NoTooltipAfterTerminate ==
  terminated => tooltips = {}

\* C18: from a mouseleave until the next mouseenter no tooltip element of the
\* host is in the document and no show-timer is pending
C18_NothingAfterLeave ==
  directive = "bound" /\ ~ hover => tooltips = {} /\ timeouts = {}

\* C19: when the dispatch fails the error goes to exactly one sink, to the form
\* only if the form exists, to notifyIf when it does not; the context is not
\* hidden, no updated event is emitted and the form keeps its values and its
\* dirty flags
C19_ErrorRouting ==
  [][ lastOp' = "submitFailed" =>
        /\ Cardinality(errorSink') = 1
        /\ errorSink' \subseteq {"handleErrorByForm", "notifyIf"}
        /\ "handleErrorByForm" \in errorSink' => formAlive
        /\ ~ formAlive => errorSink' = {"notifyIf"}
        /\ contextEvents' = {}
        /\ contextOpen' = contextOpen
        /\ values' = values
        /\ dirty' = dirty
        /\ ~ loading' ]_vars

\* C19 witness: the dispatch has failed, the form has handled the error, the
\* context is still open and the form still holds the touched, edited values
C19_HandledByForm ==
  /\ lastOp = "submitFailed"
  /\ errorSink = {"handleErrorByForm"}
  /\ contextOpen
  /\ dirty = DOMAIN values
  /\ values.name # defaultValues.name

\* C20: after the table prop has been replaced the form holds the name and the
\* api_name of the new table and no field is dirty, whatever the form held and
\* whether or not a dispatch was in flight
C20_ResetOnTableChange ==
  lastOp = "tableChanged" =>
    /\ values.name = defaultValues.name
    /\ values.api_name = defaultValues.api_name
    /\ dirty = {}

\* C20 witness: the table prop has been replaced while a dispatch of edited
\* values was in flight, and the form holds the new table's values
C20_ChangedInFlight ==
  /\ lastOp = "tableChanged"
  /\ pending > 0
  /\ loading
  /\ defaultValues = OrdersRenamed
  /\ values.name = OrdersRenamed.name

\* C21: at most one interval of the form is live at any time, it is the one
\* apiNameWarningInterval refers to, and a focus leaves none live
C21_AtMostOneTimer ==
  /\ Cardinality(intervals) <= 1
  /\ intervals \subseteq {apiNameWarningInterval}
  /\ lastOp = "focus" => intervals = {}

\* C21 witness: after a second blur the interval of the first one, which never
\* ran, is gone and the interval of the second is the only one live
C21_SecondBlur ==
  /\ lastOp = "blur"
  /\ apiNameWarningInterval = 2
  /\ intervals = {2}
  /\ 1 \notin fired

\* C22: at most one tooltip element created for the host is in the document,
\* and it is the one el.tooltipElement refers to, so that a later mouseleave
\* or terminate can remove it
C22_AtMostOneTooltip ==
  /\ Cardinality(tooltips) <= 1
  /\ tooltips \subseteq {el.tooltipElement}

\* C23: loading is true exactly while a table/update dispatch started by submit
\* is pending; no second dispatch starts while one is pending, so the first to
\* settle is the last
C23_LoadingWhilePending ==
  formKind = "table" =>
    /\ loading <=> pending > 0
    /\ pending <= 1

\* C23 witness: a dispatch is in flight, the user has gone on typing in the
\* form, and loading is still true
C23_EditedInFlight ==
  /\ lastOp = "inputName"
  /\ pending = 1
  /\ loading
  /\ contextOpen

====
